---------------------------- MODULE Spec2Model ----------------------------
(***************************************************************************)
(* Model of "Ruta Transportes/main.py": the knowledge base                 *)
(* (BaseConocimiento) with its loader (cargar_reglas) and rule engine      *)
(* (aplicar_reglas), the route search (SistemaRutas.calcular_ruta,         *)
(* _buscar_ruta_astar, _reconstruir_ruta) and the narrator                 *)
(* (describir_ruta).                                                       *)
(*                                                                         *)
(* Numbers.  tiempo_promedio, transbordos and costo are integers as in the *)
(* source.  distancia is kept in tenths of a kilometre (1.4 km = 14), a    *)
(* Preferencia peso and a congestion factor in tenths (0.5 = 5,            *)
(* 1.5 = 15).  Every weighted value and every heap priority is therefore   *)
(* the source's value multiplied by 100.  Station coordinates lie on a     *)
(* 3-4-5 grid so that the euclidean distances are integers.                *)
(*                                                                         *)
(* Floats.  distancia, peso, the weighted values and the priorities are    *)
(* Python floats: every float operation rounds its result to the           *)
(* significand (round to nearest, ties to even).  The model rounds to      *)
(* Mantisa significant bits where binary64 rounds to 53, so that the       *)
(* rounding happens at magnitudes the model can reach; the stations of     *)
(* EstacionesLejanas are far enough apart for the heuristic term to reach  *)
(* that magnitude, while on EstacionesCargadas every value is exact.       *)
(***************************************************************************)
EXTENDS Integers, Sequences, FiniteSets, TLC

\* ------------------------------------------------------------------ bounds
MaxQueries == 2
Mantisa == 14
\* the deadline the callers have, counted in iterations of the search loop
\* (calcular_ruta has no parameter for a deadline)
PlazoIteraciones == 2

\* --------------------------------------------------------------- constants
None == "None"
PenalizacionTransbordo == 5
CostoConexion == 10
AmplificacionTransbordos == 10
FactorHeuristica == 2
FactorDefecto == 15

Hilos == {1, 2}

\* ------------------------------------------------------- entities (data)
\* Conexion dataclass; horario is a dict day -> {inicio, fin}, the empty
\* function when the connection has no schedule.
SinHorario == [d \in {} |-> 0]

Conexion(o, d, l, t, dist, act, hor) ==
    [origen |-> o, destino |-> d, linea |-> l, tiempo_promedio |-> t,
     distancia |-> dist, activa |-> act, horario |-> hor]

\* conexion_id = f"{origen}-{destino}-{linea}", kept as the triple
ConexionId(c) == <<c.origen, c.destino, c.linea>>

\* BaseConocimiento.estaciones: id -> coordenadas
EstacionesCargadas ==
    [e \in {"A", "B", "C", "D"} |->
        CASE e = "A" -> <<0, 0>>
          [] e = "B" -> <<3, 0>>
          [] e = "C" -> <<3, 4>>
          [] e = "D" -> <<0, 4>>]

\* the same stations further apart
EstacionesLejanas ==
    [e \in {"A", "B", "C", "D"} |->
        CASE e = "A" -> <<0, 0>>
          [] e = "B" -> <<90, 0>>
          [] e = "C" -> <<90, 120>>
          [] e = "D" -> <<0, 120>>]

\* ids a caller may pass; "Z" is not a station
IdsConsulta == {"A", "B", "C", "D", "Z"}

\* str ordering of the ids and of the line names (heap tuple comparison)
OrdenStr(s) ==
    CASE s = None -> 0
      [] s = "A" -> 1 [] s = "B" -> 2 [] s = "C" -> 3 [] s = "D" -> 4
      [] s = "Z" -> 5
      [] s = "L1" -> 6 [] s = "L2" -> 7

HorarioLunes == [monday |-> [inicio |-> <<5, 0>>, fin |-> <<23, 0>>]]
HorarioMartes == [tuesday |-> [inicio |-> <<5, 0>>, fin |-> <<23, 0>>]]

\* the networks a knowledge base is loaded with (insertion order of the dict)
RedCadena ==
    << Conexion("A", "B", "L1", 5, 10, TRUE, SinHorario),
       Conexion("B", "C", "L1", 7, 14, TRUE, SinHorario),
       Conexion("C", "D", "L1", 6, 12, TRUE, SinHorario) >>

RedTransbordo ==
    << Conexion("A", "B", "L1", 5, 12, TRUE, SinHorario),
       Conexion("B", "C", "L2", 6, 10, TRUE, SinHorario) >>

RedCiclo ==
    << Conexion("A", "B", "L1", 32, 30, TRUE, SinHorario),
       Conexion("A", "C", "L2", 2, 50, TRUE, SinHorario),
       Conexion("C", "B", "L2", 2, 40, TRUE, SinHorario),
       Conexion("B", "A", "L1", 9, 30, TRUE, SinHorario),
       Conexion("B", "D", "L1", 30, 50, TRUE, SinHorario),
       Conexion("B", "D", "L2", 60, 50, TRUE, SinHorario) >>

RedHorario ==
    << Conexion("A", "B", "L1", 5, 30, TRUE, HorarioLunes),
       Conexion("A", "C", "L2", 4, 50, TRUE, SinHorario),
       Conexion("C", "B", "L2", 4, 40, TRUE, HorarioMartes),
       Conexion("B", "D", "L1", 3, 50, FALSE, SinHorario),
       Conexion("B", "D", "L2", 8, 50, TRUE, SinHorario) >>

RedParalela ==
    << Conexion("A", "B", "L2", 12, 30, TRUE, SinHorario),
       Conexion("A", "B", "L1", 9, 30, TRUE, SinHorario),
       Conexion("B", "C", "L2", 3, 40, TRUE, SinHorario),
       Conexion("C", "A", "L1", 4, 50, TRUE, SinHorario) >>

\* two lines between A and B whose distances differ by 0.1 km
RedGemela ==
    << Conexion("A", "B", "L1", 5, 31, TRUE, SinHorario),
       Conexion("A", "B", "L2", 5, 30, TRUE, SinHorario),
       Conexion("B", "C", "L1", 6, 10, TRUE, SinHorario) >>

Redes == {RedCadena, RedTransbordo, RedCiclo, RedHorario, RedParalela}

\* what a knowledge base is loaded with: stations and connections
Cargas ==
    [ests : {EstacionesCargadas}, red : Redes]
        \cup {[ests |-> EstacionesLejanas, red |-> RedGemela]}

CargasConcurrentes ==
    [ests : {EstacionesCargadas}, red : {RedHorario, RedParalela}]

\* the rule lists ("reglas" of the data file); a rule is a dict
ReglasCongestion == << [tipo |-> "congestion", linea |-> "L1", factor |-> 15] >>

ReglasCierreEstacion == << [tipo |-> "cierre_estacion", estacion_id |-> "B"] >>

ReglasTramo ==
    << [tipo |-> "mantenimiento_tramo", origen |-> "C", destino |-> "A"],
       [tipo |-> "congestion", linea |-> "L2"],
       [tipo |-> "desconocido"] >>

ReglasCierreLinea ==
    << [tipo |-> "cierre_linea", linea |-> "L2"],
       [tipo |-> "cierre_estacion", estacion_id |-> "Z"],
       [tipo |-> "congestion", linea |-> "L1", factor |-> 20] >>

ReglasCongestionLeve == << [tipo |-> "congestion", linea |-> "L1", factor |-> 12] >>

ListasReglas ==
    { << >>, ReglasCongestion, ReglasCierreEstacion, ReglasTramo, ReglasCierreLinea,
      ReglasCongestionLeve }

\* Preferencia lists; the preferencias argument of a call is SinPreferencias
\* (None) or Lista(l)
SinPreferencias == [es_none |-> TRUE]

Lista(l) == [es_none |-> FALSE, lista |-> l]

PreferenciasDefault ==
    << [nombre |-> "tiempo", peso |-> 5], [nombre |-> "transbordos", peso |-> 3],
       [nombre |-> "distancia", peso |-> 1], [nombre |-> "costo", peso |-> 1] >>

PreferenciasEjemplo ==
    << [nombre |-> "tiempo", peso |-> 3], [nombre |-> "transbordos", peso |-> 5],
       [nombre |-> "distancia", peso |-> 1], [nombre |-> "costo", peso |-> 1] >>

PreferenciasDesconocida == << [nombre |-> "comodidad", peso |-> 10] >>

\* query times: weekday name as strftime("%A").lower() gives it, and the clock
Horas ==
    { [dia |-> "monday", reloj |-> <<12, 0, 0>>],
      [dia |-> "monday", reloj |-> <<23, 30, 0>>],
      [dia |-> "tuesday", reloj |-> <<4, 0, 0>>] }


\* ----------------------------------------------------------------- loading
\* dict.get(k, default)
Get(r, k, defecto) == IF k \in DOMAIN r THEN r[k] ELSE defecto

\* the records of a data file ("estaciones", "conexiones" of the JSON)
RegistroEstacion(id, coordenadas) ==
    [id |-> id, nombre |-> id, latitud |-> coordenadas[1],
     longitud |-> coordenadas[2], lineas |-> << >>]

RegistroConexion(c) ==
    [origen |-> c.origen, destino |-> c.destino, linea |-> c.linea,
     tiempo |-> c.tiempo_promedio, distancia |-> c.distancia,
     activa |-> c.activa, horario |-> c.horario]

RegistrosEstaciones ==
    [i \in 1..4 |->
        LET id == <<"A", "B", "C", "D">>[i] IN
        RegistroEstacion(id, EstacionesCargadas[id])]

\* a complete file
ArchivoParalela ==
    [legible |-> TRUE,
     datos |-> [estaciones |-> RegistrosEstaciones,
                conexiones |->
                    [i \in 1..Len(RedParalela) |-> RegistroConexion(RedParalela[i])],
                reglas |-> ReglasTramo]]

\* the second connection record has no "tiempo"
ArchivoConexionMala ==
    [legible |-> TRUE,
     datos |-> [estaciones |-> RegistrosEstaciones,
                conexiones |->
                    << RegistroConexion(RedCadena[1]),
                       [origen |-> "B", destino |-> "C", linea |-> "L1",
                        distancia |-> 14],
                       RegistroConexion(RedCadena[3]) >>,
                reglas |-> ReglasCierreEstacion]]

\* the third station record has no "latitud"; the file has no "reglas"
ArchivoEstacionMala ==
    [legible |-> TRUE,
     datos |-> [estaciones |->
                    << RegistrosEstaciones[1], RegistrosEstaciones[2],
                       [id |-> "C", nombre |-> "C", longitud |-> 4, lineas |-> << >>],
                       RegistrosEstaciones[4] >>,
                conexiones |-> [i \in 1..Len(RedCadena) |-> RegistroConexion(RedCadena[i])]]]

\* open() or json.load() raises
ArchivoIlegible == [legible |-> FALSE, datos |-> [reglas |-> << >>]]

Archivos == {ArchivoParalela, ArchivoConexionMala, ArchivoEstacionMala, ArchivoIlegible}

\* the keys read with estacion_data[...] and conexion_data[...] (KeyError
\* when one is missing)
CamposEstacion == {"id", "nombre", "latitud", "longitud", "lineas"}

CamposConexion == {"origen", "destino", "linea", "tiempo", "distancia"}

\* "for estacion_data in datos.get('estaciones', [])" from index k on; error
\* is set when a record raises
RECURSIVE CargarEstaciones(_, _, _)
CargarEstaciones(registros, k, ests) ==
    IF k > Len(registros) THEN [ests |-> ests, error |-> FALSE]
    ELSE IF ~(CamposEstacion \subseteq DOMAIN registros[k])
         THEN [ests |-> ests, error |-> TRUE]
         ELSE LET r == registros[k] IN
              CargarEstaciones(registros, k + 1,
                               (r.id :> <<r.latitud, r.longitud>>) @@ ests)

\* self.conexiones[conexion_id] = conexion on the insertion-ordered dict
Insertar(conns, c) ==
    IF \E i \in 1..Len(conns) : ConexionId(conns[i]) = ConexionId(c)
    THEN [i \in 1..Len(conns) |->
            IF ConexionId(conns[i]) = ConexionId(c) THEN c ELSE conns[i]]
    ELSE Append(conns, c)

\* "for conexion_data in datos.get('conexiones', [])" from index k on
RECURSIVE CargarConexiones(_, _, _)
CargarConexiones(registros, k, conns) ==
    IF k > Len(registros) THEN [conns |-> conns, error |-> FALSE]
    ELSE IF ~(CamposConexion \subseteq DOMAIN registros[k])
         THEN [conns |-> conns, error |-> TRUE]
         ELSE LET r == registros[k] IN
              CargarConexiones(registros, k + 1,
                  Insertar(conns,
                           Conexion(r.origen, r.destino, r.linea, r.tiempo,
                                    r.distancia, Get(r, "activa", TRUE),
                                    Get(r, "horario", SinHorario))))

\* BaseConocimiento(archivo): __init__ and cargar_reglas on the empty
\* collections; error is "impreso" when the except clause ran (the exception
\* is printed and the constructor returns normally), "ninguno" otherwise
CargarReglas(archivo) ==
    IF ~archivo.legible
    THEN [estaciones |-> << >>, conexiones |-> << >>, reglas_logicas |-> << >>,
          error |-> "impreso"]
    ELSE LET e == CargarEstaciones(Get(archivo.datos, "estaciones", << >>), 1, << >>)
             c == CargarConexiones(Get(archivo.datos, "conexiones", << >>), 1, << >>)
         IN  IF e.error
             THEN [estaciones |-> e.ests, conexiones |-> << >>,
                   reglas_logicas |-> << >>, error |-> "impreso"]
             ELSE IF c.error
             THEN [estaciones |-> e.ests, conexiones |-> c.conns,
                   reglas_logicas |-> << >>, error |-> "impreso"]
             ELSE [estaciones |-> e.ests, conexiones |-> c.conns,
                   reglas_logicas |-> Get(archivo.datos, "reglas", << >>),
                   error |-> "ninguno"]

\* ------------------------------------------------------------- rule engine
\* datetime.time ordering, as seconds since midnight
Segundos(h, m, s) == h * 3600 + m * 60 + s

\* hora_actual.time() < hora_inicio or hora_actual.time() > hora_fin
FueraDeHorario(hora, horario_dia) ==
    LET ahora == Segundos(hora.reloj[1], hora.reloj[2], hora.reloj[3])
        hora_inicio == Segundos(horario_dia.inicio[1], horario_dia.inicio[2], 0)
        hora_fin == Segundos(horario_dia.fin[1], horario_dia.fin[2], 0)
    IN  ahora < hora_inicio \/ ahora > hora_fin

\* body of the schedule loop for one connection
HorarioConexion(c, hora) ==
    IF ~c.activa THEN c
    ELSE IF DOMAIN c.horario # {} /\ hora.dia \in DOMAIN c.horario
                /\ FueraDeHorario(hora, c.horario[hora.dia])
         THEN [c EXCEPT !.activa = FALSE]
         ELSE c

\* the schedule loop over self.conexiones
AplicarHorarios(conns, hora) ==
    [i \in 1..Len(conns) |-> HorarioConexion(conns[i], hora)]

\* int(conexion.tiempo_promedio * factor), factor in tenths
Congestionado(tiempo, factor) == (tiempo * factor) \div 10

\* one rule applied to one connection
ReglaConexion_TramoUnSentido(regla, c, ests) ==
    LET tipo_regla == Get(regla, "tipo", None) IN
    CASE tipo_regla = "cierre_estacion" ->
            LET estacion_id == Get(regla, "estacion_id", None) IN
            IF estacion_id \in DOMAIN ests
                  /\ (c.origen = estacion_id \/ c.destino = estacion_id)
            THEN [c EXCEPT !.activa = FALSE] ELSE c
      [] tipo_regla = "cierre_linea" ->
            IF c.linea = Get(regla, "linea", None)
            THEN [c EXCEPT !.activa = FALSE] ELSE c
      [] tipo_regla = "mantenimiento_tramo" ->
            IF c.origen = Get(regla, "origen", None)
                  /\ c.destino = Get(regla, "destino", None)
            THEN [c EXCEPT !.activa = FALSE] ELSE c
      [] tipo_regla = "congestion" ->
            IF c.linea = Get(regla, "linea", None)
            THEN [c EXCEPT !.tiempo_promedio =
                        Congestionado(@, Get(regla, "factor", FactorDefecto))]
            ELSE c
      [] OTHER -> c

ReglaConexion_CierreSoloOrigen(regla, c, ests) ==
    LET tipo_regla == Get(regla, "tipo", None) IN
    CASE tipo_regla = "cierre_estacion" ->
            LET estacion_id == Get(regla, "estacion_id", None) IN
            IF estacion_id \in DOMAIN ests /\ c.origen = estacion_id
            THEN [c EXCEPT !.activa = FALSE] ELSE c
      [] tipo_regla = "cierre_linea" ->
            IF c.linea = Get(regla, "linea", None)
            THEN [c EXCEPT !.activa = FALSE] ELSE c
      [] tipo_regla = "mantenimiento_tramo" ->
            LET tramo_origen == Get(regla, "origen", None)
                tramo_destino == Get(regla, "destino", None)
            IN  IF (c.origen = tramo_origen /\ c.destino = tramo_destino)
                     \/ (c.origen = tramo_destino /\ c.destino = tramo_origen)
                THEN [c EXCEPT !.activa = FALSE] ELSE c
      [] tipo_regla = "congestion" ->
            IF c.linea = Get(regla, "linea", None)
            THEN [c EXCEPT !.tiempo_promedio =
                        Congestionado(@, Get(regla, "factor", FactorDefecto))]
            ELSE c
      [] OTHER -> c

ReglaConexion(regla, c, ests) ==
    LET tipo_regla == Get(regla, "tipo", None) IN
    CASE tipo_regla = "cierre_estacion" ->
            LET estacion_id == Get(regla, "estacion_id", None) IN
            IF estacion_id \in DOMAIN ests
                  /\ (c.origen = estacion_id \/ c.destino = estacion_id)
            THEN [c EXCEPT !.activa = FALSE] ELSE c
      [] tipo_regla = "cierre_linea" ->
            IF c.linea = Get(regla, "linea", None)
            THEN [c EXCEPT !.activa = FALSE] ELSE c
      [] tipo_regla = "mantenimiento_tramo" ->
            LET tramo_origen == Get(regla, "origen", None)
                tramo_destino == Get(regla, "destino", None)
            IN  IF (c.origen = tramo_origen /\ c.destino = tramo_destino)
                     \/ (c.origen = tramo_destino /\ c.destino = tramo_origen)
                THEN [c EXCEPT !.activa = FALSE] ELSE c
      [] tipo_regla = "congestion" ->
            IF c.linea = Get(regla, "linea", None)
            THEN [c EXCEPT !.tiempo_promedio =
                        Congestionado(@, Get(regla, "factor", FactorDefecto))]
            ELSE c
      [] OTHER -> c

\* one iteration of "for regla in self.reglas_logicas"
AplicarRegla(regla, conns, ests) ==
    [i \in 1..Len(conns) |-> ReglaConexion(regla, conns[i], ests)]

RECURSIVE AplicarListaReglas(_, _, _, _)
AplicarListaReglas(rs, k, conns, ests) ==
    IF k > Len(rs) THEN conns
    ELSE AplicarListaReglas(rs, k + 1, AplicarRegla(rs[k], conns, ests), ests)

\* BaseConocimiento.aplicar_reglas as a whole: the connections it leaves
AplicarReglas(conns, rs, ests, hora) ==
    AplicarListaReglas(rs, 1, AplicarHorarios(conns, hora), ests)

\* ----------------------------------------------------------------- scoring
\* number of significant bits of a natural number
RECURSIVE Bits(_)
Bits(n) == IF n < 2 THEN 1 ELSE 1 + Bits(n \div 2)

RECURSIVE Pot2(_)
Pot2(k) == IF k = 0 THEN 1 ELSE 2 * Pot2(k - 1)

\* the float nearest to n: Mantisa significant bits, ties to even
Fl(n) ==
    IF Bits(n) <= Mantisa THEN n
    ELSE LET q == Pot2(Bits(n) - Mantisa)
             abajo == (n \div q) * q
             resto == n - abajo
         IN  IF 2 * resto < q THEN abajo
             ELSE IF 2 * resto > q THEN abajo + q
             ELSE IF (abajo \div q) % 2 = 0 THEN abajo ELSE abajo + q

\* "valor += pref.peso * x" for the preferences from index k on, starting
\* from valor; m is a metric vector <<tiempo, distancia, transbordos, costo>>
RECURSIVE Valor(_, _, _, _)
Valor(m, prefs, k, valor) ==
    IF k > Len(prefs) THEN valor
    ELSE LET pref == prefs[k]
             termino ==
                CASE pref.nombre = "tiempo" -> Fl(pref.peso * m[1] * 10)
                  [] pref.nombre = "distancia" -> Fl(pref.peso * m[2])
                  [] pref.nombre = "transbordos" ->
                        Fl(Fl(pref.peso * m[3] * 10) * AmplificacionTransbordos)
                  [] pref.nombre = "costo" -> Fl(pref.peso * m[4] * 10)
                  [] OTHER -> 0
         IN  Valor(m, prefs, k + 1, Fl(valor + termino))

\* SistemaRutas._es_mejor_ruta
EsMejorRuta_NoEstricto(metricas_nueva, metricas_actual, prefs) ==
    Valor(metricas_nueva, prefs, 1, 0) <= Valor(metricas_actual, prefs, 1, 0)

EsMejorRuta(metricas_nueva, metricas_actual, prefs) ==
    Valor(metricas_nueva, prefs, 1, 0) < Valor(metricas_actual, prefs, 1, 0)

\* integer square root (x ** 0.5 on the perfect squares of the grid)
RaizCuadrada(x) == CHOOSE r \in 0..x : r * r <= x /\ (r + 1) * (r + 1) > x

\* SistemaRutas._calcular_distancia
CalcularDistancia(coord1, coord2) ==
    RaizCuadrada((coord2[1] - coord1[1]) * (coord2[1] - coord1[1])
                 + (coord2[2] - coord1[2]) * (coord2[2] - coord1[2]))

\* SistemaRutas._calcular_prioridad
CalcularPrioridad(m, heuristica, prefs) ==
    Fl(Valor(m, prefs, 1, 0) + Fl(heuristica * FactorHeuristica * 100))

\* "if preferencias is None: preferencias = preferencias_default"
PreferenciasEfectivas(preferencias) ==
    IF preferencias.es_none THEN PreferenciasDefault ELSE preferencias.lista

\* ------------------------------------------------------------------ search
\* "origen_id not in estaciones" / "destino_id not in estaciones": ValueError
EndpointsValidos_SoloDestino(q, ests) == q.destino \in DOMAIN ests

EndpointsValidos(q, ests) ==
    q.origen \in DOMAIN ests /\ q.destino \in DOMAIN ests

\* locals of _buscar_ruta_astar after the initial heappush
BusquedaInicial(q) ==
    [cola |-> << <<0, q.origen, None>> >>,
     visitados |-> {},
     padres |-> << >>,
     metricas |-> (q.origen :> <<0, 0, 0, 0>>)]

\* tuple comparison of heap entries (prioridad, estacion, linea)
EntradaMenorIgual(e, f) ==
    \/ e[1] < f[1]
    \/ e[1] = f[1] /\ OrdenStr(e[2]) < OrdenStr(f[2])
    \/ e[1] = f[1] /\ e[2] = f[2] /\ OrdenStr(e[3]) <= OrdenStr(f[3])

\* the heap is kept as the list of its entries in push order
\* the entry heapq.heappop returns
Minimo(cola) ==
    cola[CHOOSE i \in 1..Len(cola) :
            \A j \in 1..Len(cola) : EntradaMenorIgual(cola[i], cola[j])]

\* the heap after heapq.heappop: one occurrence of the minimum removed
SinMinimo(cola) ==
    LET i == CHOOSE k \in 1..Len(cola) : cola[k] = Minimo(cola)
    IN  [j \in 1..(Len(cola) - 1) |-> IF j < i THEN cola[j] ELSE cola[j + 1]]

\* the connections the expansion loop does not skip
Transitable_SinActiva(c, estacion_actual_id, vis) ==
    c.origen = estacion_actual_id /\ c.destino \notin vis

Transitable(c, estacion_actual_id, vis) ==
    c.activa /\ c.origen = estacion_actual_id /\ c.destino \notin vis

\* "linea_actual is not None and linea_actual != conexion.linea"
HayTransbordo(linea_actual, c) ==
    linea_actual # None /\ linea_actual # c.linea

\* transbordos_adicional
TransbordoAdicional(linea_actual, c) ==
    IF HayTransbordo(linea_actual, c) THEN 1 ELSE 0

\* tiempo_adicional, with the transfer penalty
TiempoAdicional(linea_actual, c) ==
    c.tiempo_promedio
      + (IF HayTransbordo(linea_actual, c) THEN PenalizacionTransbordo ELSE 0)

\* (tiempo_nuevo, distancia_nueva, transbordos_nuevos, costo_nuevo)
MetricasNuevas_SinAcumular(m, linea_actual, c) ==
    << m[1] + TiempoAdicional(linea_actual, c),
       Fl(c.distancia),
       m[3] + TransbordoAdicional(linea_actual, c),
       m[4] + CostoConexion >>

MetricasNuevas(m, linea_actual, c) ==
    << m[1] + TiempoAdicional(linea_actual, c),
       Fl(m[2] + c.distancia),
       m[3] + TransbordoAdicional(linea_actual, c),
       m[4] + CostoConexion >>

\* the relaxation test
Acepta(s, sig, nueva, prefs) ==
    sig \notin DOMAIN s.metricas \/ EsMejorRuta(nueva, s.metricas[sig], prefs)

\* "for conexion_id, conexion in conexiones.items()" from index i on
RECURSIVE Explorar_SinPadres(_, _, _, _, _, _, _, _)
Explorar_SinPadres(s, i, conns, ests, actual, linea_actual, destino_id, prefs) ==
    IF i > Len(conns) THEN s
    ELSE LET c == conns[i]
             sig == c.destino
             nueva == MetricasNuevas(s.metricas[actual], linea_actual, c)
             heuristica == CalcularDistancia(ests[sig], ests[destino_id])
             entrada == <<CalcularPrioridad(nueva, heuristica, prefs), sig, c.linea>>
             s2 == IF Transitable(c, actual, s.visitados)
                        /\ Acepta(s, sig, nueva, prefs)
                   THEN [s EXCEPT !.metricas = (sig :> nueva) @@ @,
                                  !.cola = Append(@, entrada)]
                   ELSE s
         IN  Explorar_SinPadres(s2, i + 1, conns, ests, actual, linea_actual,
                                destino_id, prefs)

RECURSIVE Explorar(_, _, _, _, _, _, _, _)
Explorar(s, i, conns, ests, actual, linea_actual, destino_id, prefs) ==
    IF i > Len(conns) THEN s
    ELSE LET c == conns[i]
             sig == c.destino
             nueva == MetricasNuevas(s.metricas[actual], linea_actual, c)
             heuristica == CalcularDistancia(ests[sig], ests[destino_id])
             entrada == <<CalcularPrioridad(nueva, heuristica, prefs), sig, c.linea>>
             s2 == IF Transitable(c, actual, s.visitados)
                        /\ Acepta(s, sig, nueva, prefs)
                   THEN [s EXCEPT !.metricas = (sig :> nueva) @@ @,
                                  !.padres = (sig :> <<actual, ConexionId(c)>>) @@ @,
                                  !.cola = Append(@, entrada)]
                   ELSE s
         IN  Explorar(s2, i + 1, conns, ests, actual, linea_actual, destino_id, prefs)

\* the backward walk of _reconstruir_ruta; acc holds estaciones and
\* conexiones in walk order, falta is set when padres[estacion_actual]
\* raises KeyError
RECURSIVE Caminar(_, _, _, _)
Caminar(pad, origen_id, estacion_actual, acc) ==
    IF estacion_actual = origen_id THEN acc
    ELSE IF estacion_actual \notin DOMAIN pad THEN [acc EXCEPT !.falta = TRUE]
    ELSE Caminar(pad, origen_id, pad[estacion_actual][1],
                 [acc EXCEPT !.estaciones = Append(@, estacion_actual),
                             !.conexiones = Append(@, pad[estacion_actual][2])])

\* list.reverse()
Reverse(l) == [i \in 1..Len(l) |-> l[Len(l) + 1 - i]]

\* estaciones.append(origen_id); estaciones.reverse()
EstacionesRuta_SinOrigen(camino, origen_id) == Reverse(camino.estaciones)

EstacionesRuta_SinInvertir(camino, origen_id) == Append(camino.estaciones, origen_id)

EstacionesRuta(camino, origen_id) == Reverse(Append(camino.estaciones, origen_id))

\* SistemaRutas._reconstruir_ruta
ReconstruirRuta(pad, origen_id, destino_id, metr) ==
    LET camino == Caminar(pad, origen_id, destino_id,
                          [estaciones |-> << >>, conexiones |-> << >>,
                           falta |-> FALSE])
    IN
    IF camino.falta THEN [tipo |-> "KeyError"]
    ELSE [tipo |-> "Ruta",
          estaciones |-> EstacionesRuta(camino, origen_id),
          conexiones |-> Reverse(camino.conexiones),
          tiempo_total |-> metr[destino_id][1],
          distancia_total |-> metr[destino_id][2],
          transbordos |-> metr[destino_id][3],
          costo |-> metr[destino_id][4]]

SinResultado == [tipo |-> "pendiente"]
RutaNone == [tipo |-> "None"]
ErrorValor == [tipo |-> "ValueError"]

\* one iteration of "while cola_prioridad"; res is the value returned by the
\* iteration, SinResultado when the loop goes on
Iteracion_SinVisitar(s, q, conns, ests) ==
    LET e == Minimo(s.cola)
        estacion_actual_id == e[2]
        linea_actual == e[3]
        s1 == [s EXCEPT !.cola = SinMinimo(@)]
    IN  IF estacion_actual_id \in s.visitados
        THEN [s |-> s1, res |-> SinResultado]
        ELSE IF estacion_actual_id = q.destino
             THEN [s |-> s1,
                   res |-> ReconstruirRuta(s1.padres, q.origen, q.destino, s1.metricas)]
             ELSE [s |-> Explorar(s1, 1, conns, ests, estacion_actual_id, linea_actual,
                                  q.destino, PreferenciasEfectivas(q.preferencias)),
                   res |-> SinResultado]

Iteracion_SinDescarte(s, q, conns, ests) ==
    LET e == Minimo(s.cola)
        estacion_actual_id == e[2]
        linea_actual == e[3]
        s1 == [s EXCEPT !.cola = SinMinimo(@)]
        s2 == [s1 EXCEPT !.visitados = @ \cup {estacion_actual_id}]
    IN  IF estacion_actual_id = q.destino
        THEN [s |-> s2,
              res |-> ReconstruirRuta(s2.padres, q.origen, q.destino, s2.metricas)]
        ELSE [s |-> Explorar(s2, 1, conns, ests, estacion_actual_id, linea_actual,
                             q.destino, PreferenciasEfectivas(q.preferencias)),
              res |-> SinResultado]

Iteracion(s, q, conns, ests) ==
    LET e == Minimo(s.cola)
        estacion_actual_id == e[2]
        linea_actual == e[3]
        s1 == [s EXCEPT !.cola = SinMinimo(@)]
    IN  IF estacion_actual_id \in s.visitados
        THEN [s |-> s1, res |-> SinResultado]
        ELSE LET s2 == [s1 EXCEPT !.visitados = @ \cup {estacion_actual_id}] IN
             IF estacion_actual_id = q.destino
             THEN [s |-> s2,
                   res |-> ReconstruirRuta(s2.padres, q.origen, q.destino, s2.metricas)]
             ELSE [s |-> Explorar(s2, 1, conns, ests, estacion_actual_id, linea_actual,
                                  q.destino, PreferenciasEfectivas(q.preferencias)),
                   res |-> SinResultado]

\* the while loop run to its return value on a fixed connection collection
RECURSIVE Bucle(_, _, _, _)
Bucle(s, q, conns, ests) ==
    IF Len(s.cola) = 0 THEN RutaNone
    ELSE LET it == Iteracion(s, q, conns, ests) IN
         IF it.res # SinResultado THEN it.res ELSE Bucle(it.s, q, conns, ests)

\* SistemaRutas.calcular_ruta run alone, start to end, on the knowledge base
\* (conns, rs, ests): the value it returns
CalcularRutaSolo(q, conns, rs, ests) ==
    IF ~EndpointsValidos(q, ests) THEN ErrorValor
    ELSE Bucle(BusquedaInicial(q), q, AplicarReglas(conns, rs, ests, q.hora), ests)

\* ---------------------------------------------------------------- narrator
\* self.base_conocimiento.conexiones[conexion_id]
ConexionPorId(conns, id) ==
    conns[CHOOSE i \in 1..Len(conns) : ConexionId(conns[i]) = id]

\* f"{distancia_total:.2f}": whole kilometres and hundredths
DosDecimales(distancia) == <<distancia \div 10, (distancia % 10) * 10>>

\* the six lines describir_ruta starts with
Encabezado(ruta) ==
    << [paso |-> "ruta", estaciones |-> Len(ruta.estaciones)],
       [paso |-> "tiempo", minutos |-> ruta.tiempo_total],
       [paso |-> "distancia", km |-> DosDecimales(ruta.distancia_total)],
       [paso |-> "transbordos", cuenta |-> ruta.transbordos],
       [paso |-> "costo", unidades |-> ruta.costo],
       [paso |-> "instrucciones"] >>

\* "for i in range(len(ruta.estaciones) - 1)" from i on (i counts from 0 as
\* in the source); a station is named by its id
RECURSIVE Pasos(_, _, _, _, _)
Pasos(ruta, conns, i, linea_actual, descripcion) ==
    IF i > Len(ruta.estaciones) - 2 THEN descripcion
    ELSE LET estacion_actual == ruta.estaciones[i + 1]
             estacion_siguiente == ruta.estaciones[i + 2]
             conexion == ConexionPorId(conns, ruta.conexiones[i + 1])
             transborda ==
                IF conexion.linea # linea_actual
                THEN << [paso |-> "transborda", num |-> i + 1,
                         estacion |-> estacion_actual, linea |-> conexion.linea] >>
                ELSE << >>
             sigue ==
                IF i = Len(ruta.estaciones) - 2
                THEN [paso |-> "llega", num |-> i + 2, estacion |-> estacion_siguiente]
                ELSE [paso |-> "continua", num |-> i + 1, linea |-> conexion.linea,
                      estacion |-> estacion_siguiente]
         IN  IF i = 0
             THEN Pasos(ruta, conns, 1, conexion.linea,
                        descripcion
                          \o << [paso |-> "inicia", num |-> 1, estacion |-> estacion_actual],
                                [paso |-> "toma", linea |-> conexion.linea,
                                 hacia |-> estacion_siguiente] >>)
             ELSE Pasos(ruta, conns, i + 1, conexion.linea,
                        descripcion \o transborda \o <<sigue>>)

\* SistemaRutas.describir_ruta: the lines of the text it returns
DescribirRuta(ruta, conns) ==
    IF ruta.tipo = "None" THEN << [paso |-> "sin_ruta"] >>
    ELSE Pasos(ruta, conns, 0, None, Encabezado(ruta))

SinDescripcion == << >>

\* ------------------------------------------------------------ the callers
\* the arguments of calcular_ruta
Consultas ==
    [origen : IdsConsulta, destino : IdsConsulta, hora : Horas,
     preferencias : {SinPreferencias, Lista(PreferenciasEjemplo),
                     Lista(PreferenciasDesconocida)}]

\* the calls made by two threads at once
ConsultasConcurrentes ==
    [origen : {"A"}, destino : {"B", "D", "Z"}, hora : Horas,
     preferencias : {SinPreferencias}]

ConsultaNula ==
    [origen |-> None, destino |-> None,
     hora |-> [dia |-> None, reloj |-> <<0, 0, 0>>],
     preferencias |-> SinPreferencias]

\* ------------------------------------------------------------------- state
VARIABLES
    estaciones,       \* BaseConocimiento.estaciones
    conexiones,       \* BaseConocimiento.conexiones (shared, insertion order)
    reglas_logicas,   \* BaseConocimiento.reglas_logicas
    llamador,         \* how the callers behave: "secuencial", "repite", "concurrente"
    pc,               \* per thread: position inside calcular_ruta
    consulta,         \* per thread: arguments of the call in progress
    ir,               \* per thread: index of the next rule in aplicar_reglas
    cola_prioridad,   \* per thread: the heap
    visitados,        \* per thread
    padres,           \* per thread
    metricas,         \* per thread
    resultado,        \* per thread: what the call returned or raised
    nq,               \* calls started so far
    cargadas,         \* history: conexiones as loaded
    al_llamar,        \* history, per thread: conexiones when the call started
    primera,          \* history ("repite"): first call's arguments and result
    descripcion,      \* per thread: the text describir_ruta returned for the result
    cuenta,           \* history, per thread: iterations that got past the
                      \* visitados test, and heappush calls, of the search
    error_carga       \* what became of an exception in cargar_reglas

vars == << estaciones, conexiones, reglas_logicas, llamador, pc, consulta, ir,
           cola_prioridad, visitados, padres, metricas, resultado, nq,
           cargadas, al_llamar, primera, descripcion, cuenta, error_carga >>

base == << estaciones, reglas_logicas, llamador, cargadas, error_carga >>
locales == << cola_prioridad, visitados, padres, metricas, cuenta >>

HilosActivos == IF llamador = "concurrente" THEN Hilos ELSE {1}

Local(t) ==
    [cola |-> cola_prioridad[t], visitados |-> visitados[t],
     padres |-> padres[t], metricas |-> metricas[t]]

PonerLocal(t, s) ==
    /\ cola_prioridad' = [cola_prioridad EXCEPT ![t] = s.cola]
    /\ visitados' = [visitados EXCEPT ![t] = s.visitados]
    /\ padres' = [padres EXCEPT ![t] = s.padres]
    /\ metricas' = [metricas EXCEPT ![t] = s.metricas]

LocalVacio == [cola |-> << >>, visitados |-> {}, padres |-> << >>, metricas |-> << >>]

SinCuenta == [expansiones |-> 0, empujes |-> 0]

\* the search of thread t went through exp more expansions and emp more
\* heappush calls
Contar(t, exp, emp) ==
    cuenta' = [cuenta EXCEPT ![t] = [expansiones |-> @.expansiones + exp,
                                     empujes |-> @.empujes + emp]]

\* no call has been made yet
InitLlamadas(modo) ==
    /\ llamador = modo
    /\ pc = [t \in Hilos |-> "idle"]
    /\ consulta = [t \in Hilos |-> ConsultaNula]
    /\ ir = [t \in Hilos |-> 1]
    /\ cola_prioridad = [t \in Hilos |-> << >>]
    /\ visitados = [t \in Hilos |-> {}]
    /\ padres = [t \in Hilos |-> << >>]
    /\ metricas = [t \in Hilos |-> << >>]
    /\ resultado = [t \in Hilos |-> SinResultado]
    /\ nq = 0
    /\ cargadas = conexiones
    /\ al_llamar = [t \in Hilos |-> conexiones]
    /\ primera = [hecha |-> FALSE, consulta |-> ConsultaNula, resultado |-> SinResultado]
    /\ descripcion = [t \in Hilos |-> SinDescripcion]
    /\ cuenta = [t \in Hilos |-> SinCuenta]

\* a knowledge base filled with parsed stations, connections and rules
InitCon(modo, cargas, listas) ==
    /\ \E carga \in cargas :
          /\ estaciones = carga.ests
          /\ conexiones = carga.red
    /\ reglas_logicas \in listas
    /\ error_carga = "ninguno"
    /\ InitLlamadas(modo)

\* BaseConocimiento(archivo) on one of the data files
InitCarga ==
    /\ \E archivo \in Archivos :
          LET kb == CargarReglas(archivo) IN
          /\ estaciones = kb.estaciones
          /\ conexiones = kb.conexiones
          /\ reglas_logicas = kb.reglas_logicas
          /\ error_carga = kb.error
    /\ InitLlamadas("secuencial")

Init == InitCon("secuencial", Cargas, ListasReglas)

InitRepite == InitCon("repite", Cargas, ListasReglas)

InitConcurrente ==
    InitCon("concurrente", CargasConcurrentes, {ReglasCongestion, ReglasTramo})

\* the arguments the caller may pass now
ConsultasPosibles ==
    CASE llamador = "concurrente" -> ConsultasConcurrentes
      [] llamador = "repite" /\ nq > 0 -> {consulta[1]}
      [] OTHER -> Consultas

\* a caller enters calcular_ruta
Llamar(t) ==
    /\ t \in HilosActivos
    /\ pc[t] \in {"idle", "done"}
    /\ nq < MaxQueries
    /\ \E q \in ConsultasPosibles :
          consulta' = [consulta EXCEPT ![t] = q]
    /\ pc' = [pc EXCEPT ![t] = "horario"]
    /\ ir' = [ir EXCEPT ![t] = 1]
    /\ PonerLocal(t, LocalVacio)
    /\ cuenta' = [cuenta EXCEPT ![t] = SinCuenta]
    /\ resultado' = [resultado EXCEPT ![t] = SinResultado]
    /\ nq' = nq + 1
    /\ al_llamar' = [al_llamar EXCEPT ![t] = conexiones]
    /\ descripcion' = [descripcion EXCEPT ![t] = SinDescripcion]
    /\ UNCHANGED << base, conexiones, primera >>

\* aplicar_reglas, the schedule loop
AplicarReglasHorario(t) ==
    /\ pc[t] = "horario"
    /\ conexiones' = AplicarHorarios(conexiones, consulta[t].hora)
    /\ pc' = [pc EXCEPT ![t] = IF Len(reglas_logicas) = 0 THEN "validar" ELSE "reglas"]
    /\ UNCHANGED << base, descripcion, consulta, ir, locales, resultado, nq, al_llamar, primera >>

\* aplicar_reglas, one iteration of the loop over reglas_logicas
AplicarReglasRegla(t) ==
    /\ pc[t] = "reglas"
    /\ conexiones' = AplicarRegla(reglas_logicas[ir[t]], conexiones, estaciones)
    /\ ir' = [ir EXCEPT ![t] = @ + 1]
    /\ pc' = [pc EXCEPT ![t] = IF ir[t] = Len(reglas_logicas) THEN "validar" ELSE "reglas"]
    /\ UNCHANGED << base, descripcion, consulta, locales, resultado, nq, al_llamar, primera >>

\* what a returning call leaves in the history
Anotar(t, res) ==
    primera' = IF llamador = "repite" /\ ~primera.hecha
               THEN [hecha |-> TRUE, consulta |-> consulta[t], resultado |-> res]
               ELSE primera

Retornar(t, res) ==
    /\ resultado' = [resultado EXCEPT ![t] = res]
    /\ pc' = [pc EXCEPT ![t] = "done"]
    /\ Anotar(t, res)

\* _buscar_ruta_astar raises ValueError
LanzarValueError(t) ==
    /\ pc[t] = "validar"
    /\ ~EndpointsValidos(consulta[t], estaciones)
    /\ Retornar(t, ErrorValor)
    /\ UNCHANGED << base, descripcion, conexiones, consulta, ir, locales, nq, al_llamar >>

\* _buscar_ruta_astar sets up its locals and pushes the origin
IniciarBusqueda(t) ==
    /\ pc[t] = "validar"
    /\ EndpointsValidos(consulta[t], estaciones)
    /\ PonerLocal(t, BusquedaInicial(consulta[t]))
    /\ Contar(t, 0, 1)
    /\ pc' = [pc EXCEPT ![t] = "buscar"]
    /\ UNCHANGED << base, descripcion, conexiones, consulta, ir, resultado, nq, al_llamar, primera >>

\* the iteration that pops an entry of a settled station and discards it
Descartar(t) ==
    /\ pc[t] = "buscar"
    /\ Len(cola_prioridad[t]) > 0
    /\ Minimo(cola_prioridad[t])[2] \in visitados[t]
    /\ PonerLocal(t, Iteracion(Local(t), consulta[t], conexiones, estaciones).s)
    /\ Contar(t, 0, 0)
    /\ UNCHANGED << base, descripcion, conexiones, consulta, ir, pc, resultado, nq, al_llamar, primera >>

\* the iteration that settles a station other than the destination and
\* explores its connections
Expandir(t) ==
    /\ pc[t] = "buscar"
    /\ Len(cola_prioridad[t]) > 0
    /\ Minimo(cola_prioridad[t])[2] \notin visitados[t]
    /\ LET it == Iteracion(Local(t), consulta[t], conexiones, estaciones) IN
          /\ it.res = SinResultado
          /\ PonerLocal(t, it.s)
          /\ Contar(t, 1, Len(it.s.cola) - (Len(cola_prioridad[t]) - 1))
    /\ UNCHANGED << base, descripcion, conexiones, consulta, ir, pc, resultado, nq, al_llamar, primera >>

\* the iteration that pops the destination and returns the route
LlegarDestino(t) ==
    /\ pc[t] = "buscar"
    /\ Len(cola_prioridad[t]) > 0
    /\ LET it == Iteracion(Local(t), consulta[t], conexiones, estaciones) IN
          /\ it.res # SinResultado
          /\ PonerLocal(t, it.s)
          /\ Contar(t, 1, 0)
          /\ Retornar(t, it.res)
    /\ UNCHANGED << base, descripcion, conexiones, consulta, ir, nq, al_llamar >>

\* the heap is empty: return None
SinRuta(t) ==
    /\ pc[t] = "buscar"
    /\ Len(cola_prioridad[t]) = 0
    /\ Retornar(t, RutaNone)
    /\ UNCHANGED << base, descripcion, conexiones, consulta, ir, locales, nq, al_llamar >>

\* the caller passes the value calcular_ruta returned to describir_ruta
Describir(t) ==
    /\ pc[t] = "done"
    /\ resultado[t].tipo \in {"Ruta", "None"}
    /\ descripcion[t] = SinDescripcion
    /\ descripcion' = [descripcion EXCEPT
                          ![t] = DescribirRuta(resultado[t], conexiones)]
    /\ UNCHANGED << base, conexiones, consulta, ir, pc, locales, resultado, nq,
                    al_llamar, primera >>

Next ==
    \/ \E t \in Hilos : Llamar(t)
    \/ \E t \in Hilos : AplicarReglasHorario(t)
    \/ \E t \in Hilos : AplicarReglasRegla(t)
    \/ \E t \in Hilos : LanzarValueError(t)
    \/ \E t \in Hilos : IniciarBusqueda(t)
    \/ \E t \in Hilos : Descartar(t)
    \/ \E t \in Hilos : Expandir(t)
    \/ \E t \in Hilos : LlegarDestino(t)
    \/ \E t \in Hilos : SinRuta(t)
    \/ \E t \in Hilos : Describir(t)

Spec == Init /\ [][Next]_vars

SpecRepite == InitRepite /\ [][Next]_vars

SpecConcurrente == InitConcurrente /\ [][Next]_vars

SpecCarga == InitCarga /\ [][Next]_vars

\* ------------------------------------------------------------- properties
Conocida(e) == e \in DOMAIN estaciones

Retorno(t) == pc[t] = "done"

EsRuta(t) == Retorno(t) /\ resultado[t].tipo = "Ruta"

\* the connection of the collection that a route connection id names
ConexionDe(id, conns) ==
    conns[CHOOSE i \in 1..Len(conns) : ConexionId(conns[i]) = id]

\* positions of a route where the line changes
Cambios(r, conns) ==
    {i \in 1..(Len(r.conexiones) - 1) :
        ConexionDe(r.conexiones[i], conns).linea
            # ConexionDe(r.conexiones[i + 1], conns).linea}

RECURSIVE SumaTiempos(_, _, _)
SumaTiempos(r, conns, i) ==
    IF i > Len(r.conexiones) THEN 0
    ELSE ConexionDe(r.conexiones[i], conns).tiempo_promedio + SumaTiempos(r, conns, i + 1)

\* C1: after every call, every connection of the knowledge base has the
\* active flag and the avg_time it was loaded with.
C1_BaseSinCambios ==
    \A t \in Hilos : Retorno(t) =>
        \A i \in 1..Len(conexiones) :
            /\ conexiones[i].activa = cargadas[i].activa
            /\ conexiones[i].tiempo_promedio = cargadas[i].tiempo_promedio

\* C2: a call that repeats the arguments of the first call returns what the
\* first call returned.
C2_RepeticionIdentica ==
    \A t \in Hilos :
        (Retorno(t) /\ primera.hecha /\ consulta[t] = primera.consulta)
            => resultado[t] = primera.resultado

\* C3: once a call has built its effective view, a connection with a schedule
\* that the loaded data, the query time and the rules leave active is active
\* in that view, whatever calls were made before.
C3_VistaIndependiente ==
    \A t \in Hilos : pc[t] \in {"validar", "buscar", "done"} =>
        \A i \in 1..Len(conexiones) :
            (DOMAIN cargadas[i].horario # {}
               /\ AplicarReglas(cargadas, reglas_logicas, estaciones,
                                consulta[t].hora)[i].activa)
                => conexiones[i].activa

\* C4: a call that runs while another call runs returns what it returns when
\* it runs alone on the knowledge base it started from.
C4_SinInterferencia ==
    \A t \in Hilos : Retorno(t) =>
        resultado[t] = CalcularRutaSolo(consulta[t], al_llamar[t],
                                        reglas_logicas, estaciones)

EndpointDesconocido(t) ==
    pc[t] # "idle" /\ (~Conocida(consulta[t].origen) \/ ~Conocida(consulta[t].destino))

\* C5: a call with an unknown origin or destination never settles a station,
\* never pushes on the frontier, and ends with ValueError, not with None.
C5_EntradaInvalida ==
    \A t \in Hilos : EndpointDesconocido(t) =>
        /\ Len(cola_prioridad[t]) = 0
        /\ visitados[t] = {}
        /\ DOMAIN metricas[t] = {}
        /\ pc[t] # "buscar"
        /\ Retorno(t) => resultado[t] = ErrorValor /\ resultado[t] # RutaNone

C5_Witness ==
    \E t \in Hilos :
        /\ EndpointDesconocido(t) /\ Retorno(t)
        /\ Conocida(consulta[t].origen)
        /\ \E i \in 1..Len(conexiones) :
              conexiones[i].activa /\ conexiones[i].origen = consulta[t].origen

OrigenSinSalida(t) ==
    /\ Conocida(consulta[t].origen) /\ Conocida(consulta[t].destino)
    /\ consulta[t].origen # consulta[t].destino
    /\ \A i \in 1..Len(conexiones) :
          conexiones[i].origen = consulta[t].origen => ~conexiones[i].activa

\* C6: when every connection leaving the origin is inactive in the effective
\* view and the destination is another known station, the call returns None
\* after settling the origin alone.
C6_SinSalida ==
    \A t \in Hilos : (Retorno(t) /\ OrigenSinSalida(t)) =>
        /\ resultado[t] = RutaNone
        /\ visitados[t] = {consulta[t].origen}
        /\ Len(cola_prioridad[t]) = 0

C6_Witness ==
    \E t \in Hilos :
        /\ Retorno(t) /\ OrigenSinSalida(t)
        /\ \E i \in 1..Len(conexiones) :
              /\ conexiones[i].origen = consulta[t].origen
              /\ conexiones[i].destino = consulta[t].destino
              /\ cargadas[i].activa

\* C7: a call from a known station to itself returns the route of that one
\* station: no connections, time, distance, transfers and cost 0.
C7_RutaTrivial ==
    \A t \in Hilos :
        (Retorno(t) /\ Conocida(consulta[t].origen)
            /\ consulta[t].origen = consulta[t].destino)
        => resultado[t] = [tipo |-> "Ruta",
                           estaciones |-> <<consulta[t].origen>>,
                           conexiones |-> << >>,
                           tiempo_total |-> 0, distancia_total |-> 0,
                           transbordos |-> 0, costo |-> 0]

C7_Witness ==
    \E t \in Hilos :
        /\ Retorno(t) /\ Conocida(consulta[t].origen)
        /\ consulta[t].origen = consulta[t].destino
        /\ Len(reglas_logicas) > 0
        /\ \E i \in 1..Len(conexiones) :
              conexiones[i].activa /\ conexiones[i].origen = consulta[t].origen

\* C8: a returned route has one connection less than stations, starts at the
\* query origin and ends at the query destination.
C8_LongitudRuta ==
    \A t \in Hilos : EsRuta(t) =>
        LET r == resultado[t] IN
        /\ Len(r.conexiones) = Len(r.estaciones) - 1
        /\ r.estaciones[1] = consulta[t].origen
        /\ r.estaciones[Len(r.estaciones)] = consulta[t].destino

C8_Witness ==
    \E t \in Hilos : EsRuta(t) /\ Len(resultado[t].estaciones) = 4

\* C9: total_time of a returned route is the sum of the effective avg_time of
\* its connections plus 5 for every change of line between consecutive ones.
C9_TiempoTotal ==
    \A t \in Hilos : EsRuta(t) =>
        LET r == resultado[t] IN
        r.tiempo_total = SumaTiempos(r, conexiones, 1)
                           + 5 * Cardinality(Cambios(r, conexiones))

\* C10: transfers of a returned route is the number of positions where the
\* line of a route connection differs from the line of the next one.
C10_Transbordos ==
    \A t \in Hilos : EsRuta(t) =>
        resultado[t].transbordos = Cardinality(Cambios(resultado[t], conexiones))

\* the call has built its effective view (aplicar_reglas has returned)
VistaLista(t) == pc[t] \in {"validar", "buscar", "done"}

\* congestion rules of the list that name a line and a factor
ReglasDeCongestion ==
    {k \in 1..Len(reglas_logicas) :
        /\ Get(reglas_logicas[k], "tipo", None) = "congestion"
        /\ "linea" \in DOMAIN reglas_logicas[k]
        /\ "factor" \in DOMAIN reglas_logicas[k]}

\* v is an integer nearest to n / 10
EnteroCercano(v, n) == 10 * v - n <= 5 /\ n - 10 * v <= 5

\* C11: with one Congestion rule (line L, factor f) in the rule list, every
\* connection on L has in the effective view its loaded avg_time times f
\* rounded to the nearest integer, every connection on another line has its
\* loaded avg_time, and a route made only of L connections reports the sum of
\* the rounded values as total_time.
C11_CongestionRedondeada ==
    \A t \in Hilos : \A k \in ReglasDeCongestion :
        (VistaLista(t) /\ ReglasDeCongestion = {k}) =>
            LET L == reglas_logicas[k].linea
                f == reglas_logicas[k].factor
            IN  /\ \A i \in 1..Len(conexiones) :
                      IF conexiones[i].linea = L
                      THEN EnteroCercano(conexiones[i].tiempo_promedio,
                                         cargadas[i].tiempo_promedio * f)
                      ELSE conexiones[i].tiempo_promedio = cargadas[i].tiempo_promedio
                /\ (EsRuta(t)
                      /\ \A j \in 1..Len(resultado[t].conexiones) :
                            resultado[t].conexiones[j][3] = L)
                    => resultado[t].tiempo_total
                         = SumaTiempos(resultado[t], conexiones, 1)

\* stations reached from the stations of S over the edges <<origen, destino>>
RECURSIVE Alcanzables(_, _)
Alcanzables(S, aristas) ==
    LET T == S \cup {a[2] : a \in {b \in aristas : b[1] \in S}} IN
    IF T = S THEN S ELSE Alcanzables(T, aristas)

\* the stations the StationClosure rules of the list name
EstacionesCerradas ==
    {reglas_logicas[k].estacion_id :
        k \in {j \in 1..Len(reglas_logicas) :
                  /\ Get(reglas_logicas[j], "tipo", None) = "cierre_estacion"
                  /\ "estacion_id" \in DOMAIN reglas_logicas[j]}}

Incidente(c, B) == c.origen = B \/ c.destino = B

\* the loaded connections that do not touch B, as edges
AristasSin(B) ==
    {<<cargadas[i].origen, cargadas[i].destino>> :
        i \in {j \in 1..Len(cargadas) : ~Incidente(cargadas[j], B)}}

\* C12: with a StationClosure rule on B in the list, every connection that
\* starts or ends at B is inactive in the effective view, no returned route
\* has a connection that starts or ends at B, and a call between two known
\* stations that no path avoiding B joins returns None.
C12_CierreEstacion ==
    \A t \in Hilos : \A B \in EstacionesCerradas :
        VistaLista(t) =>
            /\ \A i \in 1..Len(conexiones) :
                  Incidente(conexiones[i], B) => ~conexiones[i].activa
            /\ EsRuta(t) =>
                  \A j \in 1..Len(resultado[t].conexiones) :
                      /\ resultado[t].conexiones[j][1] # B
                      /\ resultado[t].conexiones[j][2] # B
            /\ (/\ Retorno(t)
                /\ Conocida(consulta[t].origen) /\ Conocida(consulta[t].destino)
                /\ consulta[t].destino
                      \notin Alcanzables({consulta[t].origen}, AristasSin(B)))
               => resultado[t] = RutaNone

\* the call returned None from A to C while, without the rules, the loaded
\* network gives the route A, B, C
C12_Witness ==
    \E t \in Hilos : \E B \in EstacionesCerradas :
        /\ Retorno(t) /\ resultado[t] = RutaNone
        /\ LET sin == CalcularRutaSolo(consulta[t], cargadas, << >>, estaciones)
           IN  /\ sin.tipo = "Ruta"
               /\ sin.estaciones = <<consulta[t].origen, B, consulta[t].destino>>

\* the call has just left the schedule loop of aplicar_reglas
TrasHorario(t) ==
    \/ pc[t] = "reglas" /\ ir[t] = 1
    \/ pc[t] = "validar" /\ Len(reglas_logicas) = 0

\* the clock of the query is before start or after end of the window
FueraDeVentana(hora, ventana) ==
    LET reloj == hora.reloj[1] * 3600 + hora.reloj[2] * 60 + hora.reloj[3] IN
    \/ reloj < ventana.inicio[1] * 3600 + ventana.inicio[2] * 60
    \/ reloj > ventana.fin[1] * 3600 + ventana.fin[2] * 60

\* C13: after the schedule step of a query at time t, a connection with a
\* schedule entry for the weekday of t is inactive exactly when the clock of
\* t is before start or after end; a connection without schedule, or without
\* an entry for that weekday, has the active flag it was loaded with.
C13_FiltroHorario ==
    \A t \in Hilos : TrasHorario(t) =>
        \A i \in 1..Len(conexiones) :
            IF consulta[t].hora.dia \in DOMAIN cargadas[i].horario
            THEN ~conexiones[i].activa
                    <=> FueraDeVentana(consulta[t].hora,
                                       cargadas[i].horario[consulta[t].hora.dia])
            ELSE conexiones[i].activa = cargadas[i].activa

\* a rule entry of a known type with the fields its type requires
ReglaBienFormada(regla) ==
    /\ "tipo" \in DOMAIN regla
    /\ CASE regla.tipo = "cierre_estacion" -> "estacion_id" \in DOMAIN regla
          [] regla.tipo = "cierre_linea" -> "linea" \in DOMAIN regla
          [] regla.tipo = "mantenimiento_tramo" ->
                {"origen", "destino"} \subseteq DOMAIN regla
          [] regla.tipo = "congestion" -> {"linea", "factor"} \subseteq DOMAIN regla
          [] OTHER -> FALSE

ReglasMalformadas ==
    {k \in 1..Len(reglas_logicas) : ~ReglaBienFormada(reglas_logicas[k])}

\* C14: when the rule list has malformed entries, the effective connections
\* of a call are what the well-formed rules alone make of the connections
\* the call started from, and a call that returns a route or None returns
\* with it one warning per malformed entry.
C14_ReglaMalformada ==
    \A t \in Hilos : (VistaLista(t) /\ ReglasMalformadas # {}) =>
        /\ conexiones = AplicarReglas(al_llamar[t],
                                      SelectSeq(reglas_logicas, ReglaBienFormada),
                                      estaciones, consulta[t].hora)
        /\ (Retorno(t) /\ resultado[t].tipo \in {"Ruta", "None"}) =>
              /\ "advertencias" \in DOMAIN resultado[t]
              /\ Len(resultado[t].advertencias) = Cardinality(ReglasMalformadas)

\* C15: when loading fails, the caller gets a LoadError, the knowledge base
\* holds no station, no connection and no rule (what it held before the
\* load), and no later call searches it and returns a route or None.
C15_CargaAtomica ==
    error_carga # "ninguno" =>
        /\ error_carga = "LoadError"
        /\ DOMAIN estaciones = {}
        /\ Len(conexiones) = 0
        /\ Len(reglas_logicas) = 0
        /\ \A t \in Hilos :
              Retorno(t) => resultado[t].tipo \notin {"Ruta", "None"}

\* C16: once a search has run as many iterations as the deadline allows, the
\* next iteration does not pop and expand: it ends the call with a Cancelled
\* result.
C16_Plazo ==
    [][\A t \in Hilos :
          (/\ pc[t] = "buscar"
           /\ Len(cola_prioridad[t]) > 0
           /\ Cardinality(visitados[t]) >= PlazoIteraciones
           /\ <<pc[t], cola_prioridad[t], visitados[t]>>'
                 # <<pc[t], cola_prioridad[t], visitados[t]>>)
          => (pc'[t] = "done" /\ resultado'[t].tipo = "Cancelled")]_vars

\* the instruction steps of a description: what follows the six header lines
Instrucciones(d) == SubSeq(d, 7, Len(d))

\* positions of the steps of one kind
PasosDe(d, paso) == {k \in 1..Len(d) : d[k].paso = paso}

\* C17: the description of None is the fixed message; the description of a
\* route with at least one connection starts with one depart step that names
\* the line of the first connection, has a transfer step at exactly the
\* stations where the line of a connection differs from the line of the one
\* before, and ends with the only arrival step, which names the last station.
C17_Descripcion ==
    \A t \in Hilos : (Retorno(t) /\ descripcion[t] # SinDescripcion) =>
        LET r == resultado[t]
            d == Instrucciones(descripcion[t])
        IN  /\ r.tipo = "None" => descripcion[t] = << [paso |-> "sin_ruta"] >>
            /\ (r.tipo = "Ruta" /\ Len(r.conexiones) >= 1) =>
                  /\ Len(d) >= 2
                  /\ PasosDe(d, "inicia") = {1}
                  /\ d[1].estacion = r.estaciones[1]
                  /\ PasosDe(d, "toma") = {2}
                  /\ d[2].linea = ConexionDe(r.conexiones[1], conexiones).linea
                  /\ {<<d[k].estacion, d[k].linea>> : k \in PasosDe(d, "transborda")}
                        = {<<r.estaciones[i + 1],
                             ConexionDe(r.conexiones[i + 1], conexiones).linea>> :
                                i \in Cambios(r, conexiones)}
                  /\ Cardinality(PasosDe(d, "transborda"))
                        = Cardinality(Cambios(r, conexiones))
                  /\ PasosDe(d, "llega") = {Len(d)}
                  /\ d[Len(d)].estacion = r.estaciones[Len(r.estaciones)]

\* thread t takes a step of its search loop
PasoDeBusqueda(t) ==
    /\ pc[t] = "buscar"
    /\ <<pc[t], cola_prioridad[t], visitados[t]>>'
          # <<pc[t], cola_prioridad[t], visitados[t]>>

\* C18: in every step of a search, a popped entry of a settled station is
\* dropped and nothing else changes; a station enters the settled set only
\* as the popped entry of a station not yet settled; a route is returned only
\* in the step that pops and settles the destination; and the metric vector
\* and the predecessor link of a settled station stay as they are.
C18_AsentarUnaVez ==
    [][\A t \in Hilos : PasoDeBusqueda(t) =>
          /\ (Len(cola_prioridad[t]) > 0
                /\ Minimo(cola_prioridad[t])[2] \in visitados[t])
              => /\ Len(cola_prioridad'[t]) = Len(cola_prioridad[t]) - 1
                 /\ visitados'[t] = visitados[t]
                 /\ metricas'[t] = metricas[t]
                 /\ padres'[t] = padres[t]
                 /\ pc'[t] = "buscar"
          /\ visitados'[t] # visitados[t]
              => /\ Minimo(cola_prioridad[t])[2] \notin visitados[t]
                 /\ visitados'[t]
                       = visitados[t] \cup {Minimo(cola_prioridad[t])[2]}
          /\ resultado'[t].tipo = "Ruta"
              => /\ Len(cola_prioridad[t]) > 0
                 /\ Minimo(cola_prioridad[t])[2] = consulta[t].destino
                 /\ consulta[t].destino \notin visitados[t]
                 /\ consulta[t].destino \in visitados'[t]
          /\ \A e \in visitados[t] :
                /\ metricas'[t][e] = metricas[t][e]
                /\ IF e \in DOMAIN padres[t]
                   THEN e \in DOMAIN padres'[t] /\ padres'[t][e] = padres[t][e]
                   ELSE e \notin DOMAIN padres'[t]]_vars

\* a search holds a frontier entry of a station it has already settled, and
\* the destination has been pushed but not popped
C18_Witness ==
    \E t \in Hilos :
        /\ pc[t] = "buscar"
        /\ \E k \in 1..Len(cola_prioridad[t]) :
              cola_prioridad[t][k][2] \in visitados[t]
        /\ \E k \in 1..Len(cola_prioridad[t]) :
              cola_prioridad[t][k][2] = consulta[t].destino

\* the weighted score of a metric vector in exact arithmetic (times 100):
\* weight x value, transfers counted ten times, other names nothing
RECURSIVE Puntaje(_, _, _)
Puntaje(m, prefs, k) ==
    IF k > Len(prefs) THEN 0
    ELSE Puntaje(m, prefs, k + 1)
         + (CASE prefs[k].nombre = "tiempo" -> prefs[k].peso * m[1] * 10
              [] prefs[k].nombre = "distancia" -> prefs[k].peso * m[2]
              [] prefs[k].nombre = "transbordos" -> prefs[k].peso * m[3] * 10 * 10
              [] prefs[k].nombre = "costo" -> prefs[k].peso * m[4] * 10
              [] OTHER -> 0)

\* C19: in every step of a search, the recorded vector or predecessor of a
\* station is replaced only for a station not yet settled and only by a
\* vector of strictly lower weighted score; no recorded score increases; and
\* every entry pushed is for a station whose vector was recorded or replaced
\* in that step.
C19_Relajacion ==
    [][\A t \in Hilos : (PasoDeBusqueda(t) /\ Len(cola_prioridad[t]) > 0) =>
          LET prefs == PreferenciasEfectivas(consulta[t].preferencias)
              cambia(e) ==
                 \/ metricas'[t][e] # metricas[t][e]
                 \/ e \in DOMAIN padres[t] /\ padres'[t][e] # padres[t][e]
          IN  /\ \A e \in DOMAIN metricas[t] :
                    /\ e \in DOMAIN metricas'[t]
                    /\ Puntaje(metricas'[t][e], prefs, 1)
                          <= Puntaje(metricas[t][e], prefs, 1)
                    /\ cambia(e) =>
                          /\ e \notin visitados'[t]
                          /\ Puntaje(metricas'[t][e], prefs, 1)
                                < Puntaje(metricas[t][e], prefs, 1)
              /\ \A k \in Len(cola_prioridad[t])..Len(cola_prioridad'[t]) :
                    LET e == cola_prioridad'[t][k][2] IN
                    e \notin DOMAIN metricas[t] \/ cambia(e)]_vars

\* a search holds two frontier entries of one unsettled station: its vector
\* was recorded and then replaced by a better one
C19_Witness ==
    \E t \in Hilos :
        /\ pc[t] = "buscar"
        /\ \E j, k \in 1..Len(cola_prioridad[t]) :
              /\ j < k
              /\ cola_prioridad[t][j][2] = cola_prioridad[t][k][2]
              /\ cola_prioridad[t][j][2] \notin visitados[t]
              /\ cola_prioridad[t][j][1] > cola_prioridad[t][k][1]

\* following the predecessor links from e reaches the origin in at most n
\* steps
RECURSIVE LlegaAlOrigen(_, _, _, _)
LlegaAlOrigen(pad, origen_id, e, n) ==
    IF e = origen_id THEN TRUE
    ELSE IF n = 0 \/ e \notin DOMAIN pad THEN FALSE
    ELSE LlegaAlOrigen(pad, origen_id, pad[e][1], n - 1)

\* C20: no call ends with the missing-link failure; while a search runs and
\* when it has returned, every station with a recorded vector other than the
\* origen has a predecessor link and the links lead from it to the origin in
\* at most (number of stations - 1) steps; a returned route has at most that
\* many connections.
C20_ReconstruccionSegura ==
    \A t \in Hilos :
        /\ resultado[t].tipo # "KeyError"
        /\ pc[t] \in {"buscar", "done"} =>
              \A e \in DOMAIN metricas[t] \ {consulta[t].origen} :
                  /\ e \in DOMAIN padres[t]
                  /\ LlegaAlOrigen(padres[t], consulta[t].origen, e,
                                   Cardinality(DOMAIN estaciones) - 1)
        /\ EsRuta(t) =>
              Len(resultado[t].conexiones) <= Cardinality(DOMAIN estaciones) - 1

\* a route of two or more connections was rebuilt while the search had also
\* recorded a link for a station that is not on the route
C20_Witness ==
    \E t \in Hilos :
        /\ EsRuta(t)
        /\ Len(resultado[t].conexiones) >= 2
        /\ \E e \in DOMAIN padres[t] :
              \A i \in 1..Len(resultado[t].estaciones) :
                  resultado[t].estaciones[i] # e

\* the step of thread t that applies one rule of reglas_logicas
PasoDeRegla(t) == pc[t] = "reglas" /\ ir'[t] = ir[t] + 1

\* the connection lies on the segment of a mantenimiento_tramo rule, in
\* either direction
EnTramo(c, regla) ==
    \/ c.origen = regla.origen /\ c.destino = regla.destino
    \/ c.origen = regla.destino /\ c.destino = regla.origen

EsMantenimiento(regla) ==
    /\ "tipo" \in DOMAIN regla
    /\ regla.tipo = "mantenimiento_tramo"
    /\ "origen" \in DOMAIN regla
    /\ "destino" \in DOMAIN regla

\* C21: the rules are taken in list order, each on the connections the
\* earlier ones left. The step of a mantenimiento_tramo rule on (X, Y)
\* leaves inactive every connection from X to Y and every connection from Y
\* to X and leaves every other connection exactly as it was, and no step of
\* the program turns an inactive connection back to active.
C21_MantenimientoTramo ==
    [][/\ Len(conexiones') = Len(conexiones)
       /\ \A i \in 1..Len(conexiones) :
              ~conexiones[i].activa => ~conexiones'[i].activa
       /\ \A t \in Hilos :
              PasoDeRegla(t) /\ EsMantenimiento(reglas_logicas[ir[t]]) =>
                 \A i \in 1..Len(conexiones) :
                    IF EnTramo(conexiones[i], reglas_logicas[ir[t]])
                    THEN conexiones'[i] = [conexiones[i] EXCEPT !.activa = FALSE]
                    ELSE conexiones'[i] = conexiones[i]]_vars

\* the rules have been applied; a mantenimiento_tramo rule on (X, Y) closed a
\* connection from Y to X that was active when the call started, and another
\* rule of the list changed the avg time of a connection off the segment
C21_Witness ==
    \E t \in Hilos :
       /\ VistaLista(t)
       /\ \E k \in 1..Len(reglas_logicas) :
             /\ EsMantenimiento(reglas_logicas[k])
             /\ \E i \in 1..Len(conexiones) :
                   /\ conexiones[i].origen = reglas_logicas[k].destino
                   /\ conexiones[i].destino = reglas_logicas[k].origen
                   /\ al_llamar[t][i].activa
                   /\ ~conexiones[i].activa
             /\ \E j \in 1..Len(conexiones) :
                   /\ ~EnTramo(conexiones[j], reglas_logicas[k])
                   /\ conexiones[j].activa
                   /\ conexiones[j].tiempo_promedio # al_llamar[t][j].tiempo_promedio


NumEstaciones == Cardinality(DOMAIN estaciones)

\* C22: the search ends. Every iteration of its loop either settles a
\* station that was not settled, or leaves the settled set alone and makes
\* the heap one entry shorter; settled stations are stations of the network,
\* so the iterations that expand are at most as many as the stations, and the
\* heappush calls are at most 1 + stations x connections. With the heap
\* empty the loop is left with None, and the loop is left only with a route
\* or with None.
C22_Terminacion ==
    [][\A t \in Hilos :
          /\ visitados'[t] \subseteq DOMAIN estaciones
          /\ cuenta'[t].expansiones = Cardinality(visitados'[t])
          /\ cuenta'[t].expansiones <= NumEstaciones
          /\ cuenta'[t].empujes <= 1 + NumEstaciones * Len(conexiones)
          /\ PasoDeBusqueda(t) =>
                /\ pc'[t] \in {"buscar", "done"}
                /\ pc'[t] = "done" => resultado'[t].tipo \in {"Ruta", "None"}
                /\ Len(cola_prioridad[t]) = 0 => pc'[t] = "done" /\ resultado'[t] = RutaNone
                /\ Len(cola_prioridad[t]) > 0 =>
                      \/ /\ visitados[t] \subseteq visitados'[t]
                         /\ Cardinality(visitados'[t]) = Cardinality(visitados[t]) + 1
                      \/ /\ visitados'[t] = visitados[t]
                         /\ Len(cola_prioridad'[t]) = Len(cola_prioridad[t]) - 1]_vars

\* a search over a network with a cycle through the origin and with parallel
\* connections has returned a route after expanding every station, one of
\* them pushed more than once
C22_Witness ==
    \E t \in Hilos :
       /\ EsRuta(t)
       /\ cuenta[t].expansiones = NumEstaciones
       /\ cuenta[t].empujes > cuenta[t].expansiones
       /\ \E i \in 1..Len(conexiones) :
             /\ conexiones[i].activa
             /\ conexiones[i].destino = consulta[t].origen
             /\ conexiones[i].origen \in visitados[t]
       /\ \E i, j \in 1..Len(conexiones) :
             /\ i # j
             /\ conexiones[i].activa /\ conexiones[j].activa
             /\ conexiones[i].origen = conexiones[j].origen
             /\ conexiones[i].destino = conexiones[j].destino


\* the distances of the first i connections of a route, added one after the
\* other in route order
RECURSIVE SumaDistancias(_, _, _)
SumaDistancias(r, conns, i) ==
    IF i = 0 THEN 0
    ELSE Fl(SumaDistancias(r, conns, i - 1) + ConexionDe(r.conexiones[i], conns).distancia)

\* what the schedules at the time of the query of thread t and the rules
\* leave of the connections as loaded
VistaPropia(t) ==
    AplicarReglas(cargadas, reglas_logicas, estaciones, consulta[t].hora)

IdsConexiones(conns) == {ConexionId(conns[i]) : i \in 1..Len(conns)}

\* C23: a returned route is a path of the effective graph: each of its
\* connections is a connection of the network, active in the connections the
\* call searched and in what its time and the rules leave of the loaded ones,
\* that leaves the station at its position and enters the next one; no
\* station is listed twice; total_distance is the sum of the distances of the
\* listed connections and cost is 10 for each of them.
C23_RutaReal ==
    \A t \in Hilos : EsRuta(t) =>
        LET r == resultado[t]
            n == Len(r.conexiones)
        IN  /\ Len(r.estaciones) = n + 1
            /\ \A i \in 1..n :
                  /\ r.conexiones[i] \in IdsConexiones(conexiones)
                  /\ ConexionDe(r.conexiones[i], conexiones).activa
                  /\ ConexionDe(r.conexiones[i], VistaPropia(t)).activa
                  /\ ConexionDe(r.conexiones[i], conexiones).origen = r.estaciones[i]
                  /\ ConexionDe(r.conexiones[i], conexiones).destino = r.estaciones[i + 1]
            /\ \A i, j \in 1..(n + 1) : i # j => r.estaciones[i] # r.estaciones[j]
            /\ r.distancia_total = SumaDistancias(r, conexiones, n)
            /\ r.costo = CostoConexion * n

\* a route of three connections has been returned over a network where the
\* rules or the schedules closed a connection that left a station of the route
C23_Witness ==
    \E t \in Hilos :
        /\ EsRuta(t)
        /\ Len(resultado[t].conexiones) = 3
        /\ \E i \in 1..Len(conexiones) :
              /\ al_llamar[t][i].activa
              /\ ~conexiones[i].activa
              /\ \E k \in 1..Len(resultado[t].estaciones) :
                    resultado[t].estaciones[k] = conexiones[i].origen


\* the active connections of a collection, as edges
AristasActivas(conns) ==
    {<<conns[i].origen, conns[i].destino>> :
        i \in {j \in 1..Len(conns) : conns[j].activa}}

\* the destination of the query of thread t can be reached from its origin
\* over the active connections of conns
DestinoAlcanzable(t, conns) ==
    consulta[t].destino \in Alcanzables({consulta[t].origen}, AristasActivas(conns))

EndpointsConocidos(t) ==
    Conocida(consulta[t].origen) /\ Conocida(consulta[t].destino)

\* the search is complete on the connections it reads: a call between known
\* stations returns a route exactly when the destination can be reached over
\* the connections that are active when it returns, and None otherwise
CompletaEnLoBuscado ==
    \A t \in Hilos : (Retorno(t) /\ EndpointsConocidos(t)) =>
        /\ resultado[t].tipo = "Ruta" <=> DestinoAlcanzable(t, conexiones)
        /\ resultado[t] = RutaNone <=> ~DestinoAlcanzable(t, conexiones)

\* C24: a call between known stations returns a route exactly when the
\* destination can be reached from the origin over the connections that the
\* schedules at the query time and the rules leave active of the loaded
\* ones, and returns None only when it cannot, whatever the preferences.
C24_Completitud ==
    \A t \in Hilos : (Retorno(t) /\ EndpointsConocidos(t)) =>
        /\ resultado[t].tipo = "Ruta" <=> DestinoAlcanzable(t, VistaPropia(t))
        /\ resultado[t] = RutaNone => ~DestinoAlcanzable(t, VistaPropia(t))

=============================================================================
